---- MODULE Spec2Model ----
(***************************************************************************)
(* Special constraint cases for Quint types: the constraint generator of   *)
(* quint/src/types/specialConstraints.ts, which handles the record and     *)
(* tuple operators whose signatures cannot be written as ordinary ones.    *)
(*                                                                         *)
(* specialConstraints is a synchronous function of (opcode, id, args,      *)
(* resultTypeVar).  The state of the model is one call of the type         *)
(* inference driver: its inputs and, once it has returned, its result.     *)
(* There is one action per arm of the dispatcher's switch.                 *)
(*                                                                         *)
(* The module also holds the bundled example specification                 *)
(* examples/classic/distributed/DiningPhilosophers/DiningPhilosophers5.qnt *)
(* as a state machine of its own, with one action per action of the        *)
(* example.                                                                *)
(***************************************************************************)
EXTENDS Integers, Sequences, FiniteSets, TLC

VARIABLES
  \* one call of specialConstraints: its inputs and its result
  opcode, id, args, resultTypeVar, result,
  \* the state of the bundled example DiningPhilosophers5.qnt
  forks, taken, states

vars == <<opcode, id, args, resultTypeVar, result, forks, taken, states>>

(***************************************************************************)
(* Bounds of the model.                                                    *)
(***************************************************************************)
\* Longest argument list handed to the record and tuple constructors.
MaxArgs == 4
\* Largest integer literal among the argument expressions (the smallest is 0).
MaxIndex == 3

\* Longest argument list of a constructor in the calls that vary the name of the
\* result variable.
MaxNameArgs == 2

(***************************************************************************)
(* The values the generator works on.                                      *)
(***************************************************************************)
\* QuintEx: the literal and name expressions, by their `kind` discriminant.
StrEx(s) == [kind |-> "str", value |-> s]
IntEx(n) == [kind |-> "int", value |-> n]
NameEx(n) == [kind |-> "name", name |-> n]

\* QuintType
IntType == [kind |-> "int"]
StrType == [kind |-> "str"]
VarType(n) == [kind |-> "var", name |-> n]
SetType(t) == [kind |-> "set", elem |-> t]
EmptyRow == [kind |-> "empty"]
Row(fs, other) == [kind |-> "row", fields |-> fs, other |-> other]
RecType(row) == [kind |-> "rec", fields |-> row]
TupType(row) == [kind |-> "tup", fields |-> row]
Field(n, t) == [fieldName |-> n, fieldType |-> t]

\* Constraint of kind 'eq'
Eq(t1, t2, sourceId) == [kind |-> "eq", types |-> <<t1, t2>>, sourceId |-> sourceId]

\* Either<L, R> of @sweet-monads/either
left(e) == [tag |-> "left", value |-> e]
right(v) == [tag |-> "right", value |-> v]
\* An uncaught TypeError: the call does not return.
Thrown == [tag |-> "throw"]
\* No call made yet.
NoResult == [tag |-> "none"]

(***************************************************************************)
(* Helpers from the JavaScript runtime and lodash.                         *)
(***************************************************************************)
Digit(d) ==
  CASE d = 0 -> "0" [] d = 1 -> "1" [] d = 2 -> "2" [] d = 3 -> "3"
    [] d = 4 -> "4" [] d = 5 -> "5" [] d = 6 -> "6" [] d = 7 -> "7"
    [] d = 8 -> "8" [] d = 9 -> "9"

RECURSIVE NatToString(_)
NatToString(n) ==
  IF n < 10 THEN Digit(n) ELSE NatToString(n \div 10) \o Digit(n % 10)

\* `${n}` for a number or a bigint n
IntToString(n) == IF n < 0 THEN "-" \o NatToString(0 - n) ELSE NatToString(n)

\* `${array}`: the elements joined with a comma
RECURSIVE ArrayToString(_)
ArrayToString(ss) ==
  IF Len(ss) = 0 THEN ""
  ELSE IF Len(ss) = 1 THEN ss[1]
  ELSE ss[1] \o "," \o ArrayToString(Tail(ss))

\* lodash times(n): the indexes 0..n-1, none when n < 1 (an identity iteratee)
times(n) == IF n < 1 THEN <<>> ELSE [i \in 1..n |-> i - 1]

\* lodash chunk(array, 2): groups of two elements, the last one with what is left
chunk(array) ==
  [c \in 1..((Len(array) + 1) \div 2) |->
     SubSeq(array, 2 * c - 1, IF 2 * c <= Len(array) THEN 2 * c ELSE Len(array))]

\* mergeInMany putting each further left value in front of the ones it has.
RECURSIVE mergeInManyReversed(_)
mergeInManyReversed(eithers) ==
  IF Len(eithers) = 0 THEN right(<<>>)
  ELSE LET n == Len(eithers)
           res == mergeInManyReversed(SubSeq(eithers, 1, n - 1))
           v == eithers[n]
       IN IF res.tag = "left"
          THEN (IF v.tag = "left" THEN left(<<v.value>> \o res.value) ELSE res)
          ELSE (IF v.tag = "left" THEN left(<<v.value>>)
                ELSE right(Append(res.value, v.value)))

\* mergeInMany behaving as merge does: the first left value alone.
RECURSIVE mergeInManyFirstOnly(_)
mergeInManyFirstOnly(eithers) ==
  IF Len(eithers) = 0 THEN right(<<>>)
  ELSE LET n == Len(eithers)
           res == mergeInManyFirstOnly(SubSeq(eithers, 1, n - 1))
           v == eithers[n]
       IN IF res.tag = "left"
          THEN res
          ELSE (IF v.tag = "left" THEN left(<<v.value>>)
                ELSE right(Append(res.value, v.value)))

\* mergeInMany of @sweet-monads/either: the right values in order when there is
\* no left, and otherwise every left value in order.
RECURSIVE mergeInMany(_)
mergeInMany(eithers) ==
  IF Len(eithers) = 0 THEN right(<<>>)
  ELSE LET n == Len(eithers)
           res == mergeInMany(SubSeq(eithers, 1, n - 1))
           v == eithers[n]
       IN IF res.tag = "left"
          THEN (IF v.tag = "left" THEN left(Append(res.value, v.value)) ELSE res)
          ELSE (IF v.tag = "left" THEN left(<<v.value>>)
                ELSE right(Append(res.value, v.value)))

(***************************************************************************)
(* Collaborators of the module: IRprinting and errorTree.                  *)
(***************************************************************************)
\* The display form of an expression
expressionToString(ex) ==
  CASE ex.kind = "str" -> "\"" \o ex.value \o "\""
    [] ex.kind = "int" -> IntToString(ex.value)
    [] ex.kind = "name" -> ex.name

buildErrorLeaf(location, message) ==
  [location |-> location, message |-> message, children |-> <<>>]

\* `Generating record constraints for ${args.map(a => expressionToString(a[0]))}`
ErrorLocation(as) ==
  "Generating record constraints for "
    \o ArrayToString([i \in 1..Len(as) |-> expressionToString(as[i][1])])

(***************************************************************************)
(* The six rules.  An argument is a pair <<expression, type>>.             *)
(***************************************************************************)
\* recordConstructorConstraints returning no constraint for a record without
\* fields.
recordConstructorConstraintsSkipEmpty(i, as, rv) ==
  IF Len(as) % 2 = 1
  THEN Thrown
  ELSE
    LET chunks == chunk(as)
        fields == [c \in 1..Len(chunks) |->
          LET key == chunks[c][1][1]
              valueType == chunks[c][2][2]
          IN IF key.kind # "str"
             THEN left(buildErrorLeaf(
                    ErrorLocation(as),
                    "Record field name must be a name expression but is "
                      \o key.kind \o ": " \o expressionToString(key)))
             ELSE right(Field(key.value, valueType))]
        merged == mergeInMany(fields)
    IN IF merged.tag = "left"
       THEN merged
       ELSE IF Len(merged.value) = 0
       THEN right(<<>>)
       ELSE right(<<Eq(RecType(Row(merged.value, EmptyRow)), rv, i)>>)

\* recordConstructorConstraints taking the type of the key, not of the value, as
\* the type of the field.
recordConstructorConstraintsKeyType(i, as, rv) ==
  IF Len(as) % 2 = 1
  THEN Thrown
  ELSE
    LET chunks == chunk(as)
        fields == [c \in 1..Len(chunks) |->
          LET key == chunks[c][1][1]
              keyType == chunks[c][1][2]
          IN IF key.kind # "str"
             THEN left(buildErrorLeaf(
                    ErrorLocation(as),
                    "Record field name must be a name expression but is "
                      \o key.kind \o ": " \o expressionToString(key)))
             ELSE right(Field(key.value, keyType))]
        merged == mergeInMany(fields)
    IN IF merged.tag = "left"
       THEN merged
       ELSE right(<<Eq(RecType(Row(merged.value, EmptyRow)), rv, i)>>)

\* recordConstructorConstraints accepting a name expression as a key, as its
\* error message suggests.
recordConstructorConstraintsNameKey(i, as, rv) ==
  IF Len(as) % 2 = 1
  THEN Thrown
  ELSE
    LET chunks == chunk(as)
        fields == [c \in 1..Len(chunks) |->
          LET key == chunks[c][1][1]
              valueType == chunks[c][2][2]
          IN IF key.kind \notin {"str", "name"}
             THEN left(buildErrorLeaf(
                    ErrorLocation(as),
                    "Record field name must be a name expression but is "
                      \o key.kind \o ": " \o expressionToString(key)))
             ELSE right(Field(IF key.kind = "str" THEN key.value ELSE key.name,
                              valueType))]
        merged == mergeInMany(fields)
    IN IF merged.tag = "left"
       THEN merged
       ELSE right(<<Eq(RecType(Row(merged.value, EmptyRow)), rv, i)>>)

recordConstructorConstraints(i, as, rv) ==
  IF Len(as) % 2 = 1
  THEN Thrown  \* the last chunk has no second element to destructure
  ELSE
    LET chunks == chunk(as)
        fields == [c \in 1..Len(chunks) |->
          LET key == chunks[c][1][1]
              valueType == chunks[c][2][2]
          IN IF key.kind # "str"
             THEN left(buildErrorLeaf(
                    ErrorLocation(as),
                    "Record field name must be a name expression but is "
                      \o key.kind \o ": " \o expressionToString(key)))
             ELSE right(Field(key.value, valueType))]
        merged == mergeInMany(fields)
    IN IF merged.tag = "left"
       THEN merged
       ELSE right(<<Eq(RecType(Row(merged.value, EmptyRow)), rv, i)>>)

\* fieldConstraints building a closed record: the row has no tail variable.
fieldConstraintsClosedRow(i, as, rv) ==
  IF Len(as) < 2
  THEN Thrown
  ELSE
    LET recType == as[1][2]
        fieldName == as[2][1]
    IN IF fieldName.kind # "str"
       THEN left(buildErrorLeaf(
              ErrorLocation(as),
              "Record field name must be a string expression but is "
                \o fieldName.kind \o ": " \o expressionToString(fieldName)))
       ELSE
         LET generalRecType == RecType(Row(<<Field(fieldName.value, rv)>>, EmptyRow))
         IN right(<<Eq(recType, generalRecType, i)>>)

\* fieldConstraints reporting the record expression, not the field name, in the
\* error message.
fieldConstraintsWrongExpr(i, as, rv) ==
  IF Len(as) < 2
  THEN Thrown
  ELSE
    LET recType == as[1][2]
        rec == as[1][1]
        fieldName == as[2][1]
    IN IF fieldName.kind # "str"
       THEN left(buildErrorLeaf(
              ErrorLocation(as),
              "Record field name must be a string expression but is "
                \o rec.kind \o ": " \o expressionToString(rec)))
       ELSE
         LET generalRecType ==
               RecType(Row(<<Field(fieldName.value, rv)>>, VarType("tail_" \o rv.name)))
         IN right(<<Eq(recType, generalRecType, i)>>)

\* fieldConstraints rejecting a first argument whose type is known not to be a
\* record.
fieldConstraintsTypeCheck(i, as, rv) ==
  IF Len(as) < 2
  THEN Thrown
  ELSE
    LET recType == as[1][2]
        fieldName == as[2][1]
    IN IF fieldName.kind # "str"
       THEN left(buildErrorLeaf(
              ErrorLocation(as),
              "Record field name must be a string expression but is "
                \o fieldName.kind \o ": " \o expressionToString(fieldName)))
       ELSE IF recType.kind \in {"int", "str"}
       THEN left(buildErrorLeaf(
              ErrorLocation(as),
              "Expected a record but got " \o recType.kind))
       ELSE
         LET generalRecType ==
               RecType(Row(<<Field(fieldName.value, rv)>>, VarType("tail_" \o rv.name)))
         IN right(<<Eq(recType, generalRecType, i)>>)

fieldConstraints(i, as, rv) ==
  IF Len(as) < 2
  THEN Thrown  \* destructuring a missing argument
  ELSE
    LET recType == as[1][2]
        fieldName == as[2][1]
    IN IF fieldName.kind # "str"
       THEN left(buildErrorLeaf(
              ErrorLocation(as),
              "Record field name must be a string expression but is "
                \o fieldName.kind \o ": " \o expressionToString(fieldName)))
       ELSE
         LET generalRecType ==
               RecType(Row(<<Field(fieldName.value, rv)>>, VarType("tail_" \o rv.name)))
         IN right(<<Eq(recType, generalRecType, i)>>)

\* fieldNamesConstraints naming the row variable like the tail of the other rules.
fieldNamesConstraintsTailName(i, as, rv) ==
  IF Len(as) < 1
  THEN Thrown
  ELSE
    LET recType == as[1][2]
        generalRecType == RecType(VarType("tail_" \o rv.name))
        c1 == Eq(rv, SetType(StrType), i)
        c2 == Eq(recType, generalRecType, i)
    IN right(<<c1, c2>>)

fieldNamesConstraints(i, as, rv) ==
  IF Len(as) < 1
  THEN Thrown  \* destructuring a missing argument
  ELSE
    LET recType == as[1][2]
        generalRecType == RecType(VarType("rec_" \o rv.name))
        c1 == Eq(rv, SetType(StrType), i)
        c2 == Eq(recType, generalRecType, i)
    IN right(<<c1, c2>>)

\* withConstraints giving the field the result variable as its type, as
\* fieldConstraints does, instead of the type of the new value.
withConstraintsResultField(i, as, rv) ==
  IF Len(as) < 3
  THEN Thrown
  ELSE
    LET recType == as[1][2]
        fieldName == as[2][1]
    IN IF fieldName.kind # "str"
       THEN left(buildErrorLeaf(
              ErrorLocation(as),
              "Record field name must be a string expression but is "
                \o fieldName.kind \o ": " \o expressionToString(fieldName)))
       ELSE
         LET generalRecType ==
               RecType(Row(<<Field(fieldName.value, rv)>>, VarType("tail_" \o rv.name)))
             c1 == Eq(recType, generalRecType, i)
             c2 == Eq(rv, generalRecType, i)
         IN right(<<c1, c2>>)

withConstraints(i, as, rv) ==
  IF Len(as) < 3
  THEN Thrown  \* destructuring a missing argument
  ELSE
    LET recType == as[1][2]
        fieldName == as[2][1]
        valueType == as[3][2]
    IN IF fieldName.kind # "str"
       THEN left(buildErrorLeaf(
              ErrorLocation(as),
              "Record field name must be a string expression but is "
                \o fieldName.kind \o ": " \o expressionToString(fieldName)))
       ELSE
         LET generalRecType ==
               RecType(Row(<<Field(fieldName.value, valueType)>>,
                           VarType("tail_" \o rv.name)))
             c1 == Eq(recType, generalRecType, i)
             c2 == Eq(rv, generalRecType, i)
         IN right(<<c1, c2>>)

\* tupleConstructorConstraints naming every field by the number of arguments,
\* as a loop variable read after the loop would.
tupleConstructorConstraintsSameName(i, as, rv) ==
  LET fields == [k \in 1..Len(as) |-> Field(IntToString(Len(as)), as[k][2])]
      t2 == TupType(Row(fields, EmptyRow))
  IN right(<<Eq(t2, rv, i)>>)

\* tupleConstructorConstraints naming the fields from 1.
tupleConstructorConstraintsOneBased(i, as, rv) ==
  LET fields == [k \in 1..Len(as) |-> Field(IntToString(k), as[k][2])]
      t2 == TupType(Row(fields, EmptyRow))
  IN right(<<Eq(t2, rv, i)>>)

tupleConstructorConstraints(i, as, rv) ==
  LET fields == [k \in 1..Len(as) |-> Field(IntToString(k - 1), as[k][2])]
      t2 == TupType(Row(fields, EmptyRow))
  IN right(<<Eq(t2, rv, i)>>)

\* itemConstraints naming the placeholders without the result variable.
itemConstraintsNoName(i, as, rv) ==
  IF Len(as) < 2
  THEN Thrown
  ELSE
    LET tupType == as[1][2]
        itemName == as[2][1]
    IN IF itemName.kind # "int"
       THEN left(buildErrorLeaf(
              ErrorLocation(as),
              "Tup field index must be an int expression but is "
                \o itemName.kind \o ": " \o expressionToString(itemName)))
       ELSE
         LET ts == times(itemName.value - 1)
             placeholders == [k \in 1..Len(ts) |->
               Field(IntToString(ts[k]), VarType("tup_" \o IntToString(ts[k])))]
             fields == Append(placeholders, Field(IntToString(itemName.value - 1), rv))
             generalTupType == TupType(Row(fields, VarType("tail_" \o rv.name)))
         IN right(<<Eq(tupType, generalTupType, i)>>)

\* itemConstraints taking the index literal, not the id of the node, as the
\* source of the constraint.
itemConstraintsIndexAsSource(i, as, rv) ==
  IF Len(as) < 2
  THEN Thrown
  ELSE
    LET tupType == as[1][2]
        itemName == as[2][1]
    IN IF itemName.kind # "int"
       THEN left(buildErrorLeaf(
              ErrorLocation(as),
              "Tup field index must be an int expression but is "
                \o itemName.kind \o ": " \o expressionToString(itemName)))
       ELSE
         LET ts == times(itemName.value - 1)
             placeholders == [k \in 1..Len(ts) |->
               Field(IntToString(ts[k]),
                     VarType("tup_" \o rv.name \o "_" \o IntToString(ts[k])))]
             fields == Append(placeholders, Field(IntToString(itemName.value - 1), rv))
             generalTupType == TupType(Row(fields, VarType("tail_" \o rv.name)))
         IN right(<<Eq(tupType, generalTupType, itemName.value)>>)

\* itemConstraints naming every placeholder by the result variable alone.
itemConstraintsNoIndex(i, as, rv) ==
  IF Len(as) < 2
  THEN Thrown
  ELSE
    LET tupType == as[1][2]
        itemName == as[2][1]
    IN IF itemName.kind # "int"
       THEN left(buildErrorLeaf(
              ErrorLocation(as),
              "Tup field index must be an int expression but is "
                \o itemName.kind \o ": " \o expressionToString(itemName)))
       ELSE
         LET ts == times(itemName.value - 1)
             placeholders == [k \in 1..Len(ts) |->
               Field(IntToString(ts[k]), VarType("tup_" \o rv.name))]
             fields == Append(placeholders, Field(IntToString(itemName.value - 1), rv))
             generalTupType == TupType(Row(fields, VarType("tail_" \o rv.name)))
         IN right(<<Eq(tupType, generalTupType, i)>>)

\* itemConstraints taking the index as 0-based: N placeholders, then the item.
itemConstraintsZeroBased(i, as, rv) ==
  IF Len(as) < 2
  THEN Thrown
  ELSE
    LET tupType == as[1][2]
        itemName == as[2][1]
    IN IF itemName.kind # "int"
       THEN left(buildErrorLeaf(
              ErrorLocation(as),
              "Tup field index must be an int expression but is "
                \o itemName.kind \o ": " \o expressionToString(itemName)))
       ELSE
         LET ts == times(itemName.value)
             placeholders == [k \in 1..Len(ts) |->
               Field(IntToString(ts[k]),
                     VarType("tup_" \o rv.name \o "_" \o IntToString(ts[k])))]
             fields == Append(placeholders, Field(IntToString(itemName.value), rv))
             generalTupType == TupType(Row(fields, VarType("tail_" \o rv.name)))
         IN right(<<Eq(tupType, generalTupType, i)>>)

\* itemConstraints letting a string literal through as an index, read as 1.
itemConstraintsStrIndex(i, as, rv) ==
  IF Len(as) < 2
  THEN Thrown
  ELSE
    LET tupType == as[1][2]
        itemName == as[2][1]
    IN IF itemName.kind \notin {"int", "str"}
       THEN left(buildErrorLeaf(
              ErrorLocation(as),
              "Tup field index must be an int expression but is "
                \o itemName.kind \o ": " \o expressionToString(itemName)))
       ELSE
         LET n == IF itemName.kind = "int" THEN itemName.value ELSE 1
             ts == times(n - 1)
             placeholders == [k \in 1..Len(ts) |->
               Field(IntToString(ts[k]),
                     VarType("tup_" \o rv.name \o "_" \o IntToString(ts[k])))]
             fields == Append(placeholders, Field(IntToString(n - 1), rv))
             generalTupType == TupType(Row(fields, VarType("tail_" \o rv.name)))
         IN right(<<Eq(tupType, generalTupType, i)>>)

itemConstraints(i, as, rv) ==
  IF Len(as) < 2
  THEN Thrown  \* destructuring a missing argument
  ELSE
    LET tupType == as[1][2]
        itemName == as[2][1]
    IN IF itemName.kind # "int"
       THEN left(buildErrorLeaf(
              ErrorLocation(as),
              "Tup field index must be an int expression but is "
                \o itemName.kind \o ": " \o expressionToString(itemName)))
       ELSE
         LET ts == times(itemName.value - 1)
             placeholders == [k \in 1..Len(ts) |->
               Field(IntToString(ts[k]),
                     VarType("tup_" \o rv.name \o "_" \o IntToString(ts[k])))]
             fields == Append(placeholders, Field(IntToString(itemName.value - 1), rv))
             generalTupType == TupType(Row(fields, VarType("tail_" \o rv.name)))
         IN right(<<Eq(tupType, generalTupType, i)>>)

(***************************************************************************)
(* The dispatcher.                                                         *)
(***************************************************************************)
\* specialConstraints reporting an error for an opcode it has no rule for.
specialConstraintsUnknownOpcode(op, i, as, rv) ==
  CASE op = "Rec" -> recordConstructorConstraints(i, as, rv)
    [] op = "field" -> fieldConstraints(i, as, rv)
    [] op = "fieldNames" -> fieldNamesConstraints(i, as, rv)
    [] op = "with" -> withConstraints(i, as, rv)
    [] op = "Tup" -> tupleConstructorConstraints(i, as, rv)
    [] op = "item" -> itemConstraints(i, as, rv)
    [] OTHER -> left(buildErrorLeaf(ErrorLocation(as), "Unknown operator " \o op))

specialConstraints(op, i, as, rv) ==
  CASE op = "Rec" -> recordConstructorConstraints(i, as, rv)
    [] op = "field" -> fieldConstraints(i, as, rv)
    [] op = "fieldNames" -> fieldNamesConstraints(i, as, rv)
    [] op = "with" -> withConstraints(i, as, rv)
    [] op = "Tup" -> tupleConstructorConstraints(i, as, rv)
    [] op = "item" -> itemConstraints(i, as, rv)
    [] OTHER -> right(<<>>)

(***************************************************************************)
(* The example DiningPhilosophers5: the dining philosophers with Dijkstra's *)
(* solution, N = 5.                                                        *)
(***************************************************************************)
\* Number of philosophers: import DiningPhilosophers(N = 5).*
N == 5

philosophers == 0..(N - 1)

leftFork(p) == p

rightFork(p) == (p + 1) % N

leftPhilosopher(p) == (p - 1 + N) % N

rightPhilosopher(p) == (p + 1) % N

canPickBoth(p) == leftFork(p) \notin forks /\ rightFork(p) \notin forks

\* canEat looking the pairs up with the fork first.
canEatSwappedPair(p) ==
  <<leftFork(p), p>> \in taken /\ <<rightFork(p), p>> \in taken

canEat(p) == <<p, leftFork(p)>> \in taken /\ <<p, rightFork(p)>> \in taken

\* `vars` of the example
philosopherVars == <<forks, taken, states>>

init ==
  /\ forks = {}
  /\ taken = {}
  /\ states = [p \in philosophers |-> "Thinking"]

becomeHungry(p) ==
  /\ states[p] = "Thinking"
  /\ states' = [states EXCEPT ![p] = "Hungry"]
  /\ taken' = taken
  /\ forks' = forks
  /\ UNCHANGED <<opcode, id, args, resultTypeVar, result>>

\* pickBothForks without the test that both forks are free.
pickBothForksAnyFork(p) ==
  /\ states[p] = "Hungry"
  /\ states' = states
  /\ taken' = taken \cup {<<p, leftFork(p)>>, <<p, rightFork(p)>>}
  /\ forks' = forks \cup {leftFork(p), rightFork(p)}
  /\ UNCHANGED <<opcode, id, args, resultTypeVar, result>>

pickBothForks(p) ==
  /\ states[p] = "Hungry"
  /\ canPickBoth(p)
  /\ states' = states
  /\ taken' = taken \cup {<<p, leftFork(p)>>, <<p, rightFork(p)>>}
  /\ forks' = forks \cup {leftFork(p), rightFork(p)}
  /\ UNCHANGED <<opcode, id, args, resultTypeVar, result>>

eat(p) ==
  /\ states[p] = "Hungry"
  /\ canEat(p)
  /\ states' = [states EXCEPT ![p] = "Eating"]
  /\ taken' = taken
  /\ forks' = forks
  /\ UNCHANGED <<opcode, id, args, resultTypeVar, result>>

releaseForks(p) ==
  /\ states[p] = "Eating"
  /\ taken' = taken \ {<<p, leftFork(p)>>, <<p, rightFork(p)>>}
  /\ forks' = forks \ {leftFork(p), rightFork(p)}
  /\ states' = [states EXCEPT ![p] = "Thinking"]
  /\ UNCHANGED <<opcode, id, args, resultTypeVar, result>>

step ==
  \E p \in philosophers :
    \/ becomeHungry(p)
    \/ pickBothForks(p)
    \/ eat(p)
    \/ releaseForks(p)

TypeOk ==
  /\ forks \subseteq
       {leftFork(p) : p \in philosophers} \cup {rightFork(p) : p \in philosophers}
  /\ \A pair \in taken : pair[1] \in philosophers /\ pair[2] \in forks

Safety ==
  /\ \A p \in philosophers :
       ~(states[p] = "Eating" /\ states[rightPhilosopher(p)] = "Eating")
  /\ \A f \in forks : Cardinality({pair \in taken : pair[2] = f}) <= 1

DeadlockCondition ==
  /\ \A p \in philosophers : states[p] = "Hungry"
  /\ \A p \in philosophers : ~canPickBoth(p)

DeadlockFreedom == WF_philosopherVars(step) => []<>(~DeadlockCondition)

\* The example runs from init; no call of the generator is going on.
InitPhilosophers ==
  /\ init
  /\ opcode = "iadd"
  /\ id = 1
  /\ args = <<>>
  /\ resultTypeVar = VarType("r")
  /\ result = NoResult

SpecPhilosophers == InitPhilosophers /\ [][step]_vars

\* weakFair(step, vars)
SpecPhilosophersFair == SpecPhilosophers /\ WF_philosopherVars(step)

(***************************************************************************)
(* The calls the type inference driver makes.                              *)
(***************************************************************************)
SpecialOpcodes == {"Rec", "field", "fieldNames", "with", "Tup", "item"}
\* An operator that is typed by an ordinary signature.
OtherOpcodes == {"iadd"}

\* The typed arguments: an expression and the type inferred for it.  A literal
\* comes with the type of its kind or with a type variable, a name with any type.
Arguments ==
  {<<StrEx("a"), StrType>>, <<StrEx("a"), VarType("t")>>, <<StrEx("b"), StrType>>,
   <<NameEx("x"), VarType("t")>>, <<NameEx("x"), IntType>>}
    \cup {<<IntEx(n), IntType>> : n \in 0..MaxIndex}
NodeIds == {1, 2}
ResultVars == {VarType("r"), VarType("r_0")}

ArgLists(hi) == UNION {[1..n -> Arguments] : n \in 0..hi}

\* The argument lists the driver hands over for an opcode: the constructors take
\* any number of arguments, the other rules at most their own number.
ArgListsOf(op) ==
  CASE op = "field" -> ArgLists(2)
    [] op = "fieldNames" -> ArgLists(1)
    [] op = "with" -> ArgLists(3)
    [] op = "item" -> ArgLists(2)
    [] OTHER -> ArgLists(MaxArgs)

\* The driver is about to call specialConstraints for one call expression.
Init ==
  /\ opcode \in SpecialOpcodes \cup OtherOpcodes
  /\ id \in NodeIds
  /\ args \in ArgListsOf(opcode)
  /\ resultTypeVar \in ResultVars
  /\ result = NoResult
  /\ init

\* The call returns (or throws) through the arm of the switch its opcode selects.
CallRec ==
  /\ result = NoResult
  /\ opcode = "Rec"
  /\ result' = specialConstraints(opcode, id, args, resultTypeVar)
  /\ UNCHANGED <<opcode, id, args, resultTypeVar, forks, taken, states>>

CallField ==
  /\ result = NoResult
  /\ opcode = "field"
  /\ result' = specialConstraints(opcode, id, args, resultTypeVar)
  /\ UNCHANGED <<opcode, id, args, resultTypeVar, forks, taken, states>>

CallFieldNames ==
  /\ result = NoResult
  /\ opcode = "fieldNames"
  /\ result' = specialConstraints(opcode, id, args, resultTypeVar)
  /\ UNCHANGED <<opcode, id, args, resultTypeVar, forks, taken, states>>

CallWith ==
  /\ result = NoResult
  /\ opcode = "with"
  /\ result' = specialConstraints(opcode, id, args, resultTypeVar)
  /\ UNCHANGED <<opcode, id, args, resultTypeVar, forks, taken, states>>

CallTup ==
  /\ result = NoResult
  /\ opcode = "Tup"
  /\ result' = specialConstraints(opcode, id, args, resultTypeVar)
  /\ UNCHANGED <<opcode, id, args, resultTypeVar, forks, taken, states>>

CallItem ==
  /\ result = NoResult
  /\ opcode = "item"
  /\ result' = specialConstraints(opcode, id, args, resultTypeVar)
  /\ UNCHANGED <<opcode, id, args, resultTypeVar, forks, taken, states>>

CallOther ==
  /\ result = NoResult
  /\ opcode \notin SpecialOpcodes
  /\ result' = specialConstraints(opcode, id, args, resultTypeVar)
  /\ UNCHANGED <<opcode, id, args, resultTypeVar, forks, taken, states>>

Next ==
  \/ CallRec
  \/ CallField
  \/ CallFieldNames
  \/ CallWith
  \/ CallTup
  \/ CallItem
  \/ CallOther

\* Calls with result variables whose names look like the names the rules derive.
ResultVarNames == {"r", "r_0", "tail_r", "tup_r", "tup_r_0", "0"}

\* Short argument lists for the constructors, all lists for the other rules.
NameArgListsOf(op) ==
  IF op \in {"field", "fieldNames", "with", "item"}
  THEN ArgListsOf(op)
  ELSE ArgLists(MaxNameArgs)

InitNames ==
  /\ opcode \in SpecialOpcodes \cup OtherOpcodes
  /\ id \in NodeIds
  /\ args \in NameArgListsOf(opcode)
  /\ resultTypeVar \in {VarType(n) : n \in ResultVarNames}
  /\ result = NoResult
  /\ init

SpecNames == InitNames /\ [][Next]_vars

Spec == Init /\ [][Next]_vars

(***************************************************************************)
(* Properties of the generator.                                            *)
(***************************************************************************)
\* The call has returned or thrown.
Returned == result.tag # "none"

\* The constraint c is an equality between the types t1 and t2, in this order.
IsEq(c, t1, t2) == c.kind = "eq" /\ c.types = <<t1, t2>>

\* The key expression, the value expression and the value type of the c-th
\* key-value pair of a Rec argument list.
KeyOf(c) == args[2 * c - 1][1]
ValueTypeOf(c) == args[2 * c][2]
Pairs == 1..(Len(args) \div 2)
BadKeys == {c \in Pairs : KeyOf(c).kind # "str"}

\* The validation messages of the rules for a non-literal expression ex.
RecKeyMessage(ex) ==
  "Record field name must be a name expression but is "
    \o ex.kind \o ": " \o expressionToString(ex)
FieldNameMessage(ex) ==
  "Record field name must be a string expression but is "
    \o ex.kind \o ": " \o expressionToString(ex)
ItemIndexMessage(ex) ==
  "Tup field index must be an int expression but is "
    \o ex.kind \o ": " \o expressionToString(ex)

\* C1: for an opcode that is none of Rec, field, fieldNames, with, Tup and item,
\* the call succeeds with an empty list of constraints, whatever the arguments
\* and the result variable are; it never fails.
C1_OtherOpcodeNoConstraints ==
  (Returned /\ opcode \notin SpecialOpcodes)
    => (result.tag = "right" /\ Len(result.value) = 0)

C1_Witness ==
  /\ Returned
  /\ opcode \notin SpecialOpcodes
  /\ Len(args) = 3
  /\ args[1][1].kind = "name"
  /\ args[2][1].kind = "int"
  /\ args[3][1].kind = "str"
  /\ result.tag = "right"

\* C2: Rec with an even number of arguments whose keys are all string literals
\* succeeds with exactly one constraint, the equality of the closed record with
\* the fields (value of key, type of value) in argument order and the result
\* variable; nothing else of the arguments enters the result.
C2_RecClosedRecord ==
  (Returned /\ opcode = "Rec" /\ Len(args) % 2 = 0 /\ BadKeys = {})
    => /\ result.tag = "right"
       /\ Len(result.value) = 1
       /\ IsEq(result.value[1],
               RecType(Row([c \in Pairs |-> Field(KeyOf(c).value, ValueTypeOf(c))],
                           EmptyRow)),
               resultTypeVar)

C2_Witness ==
  /\ Returned
  /\ opcode = "Rec"
  /\ args = <<<<StrEx("b"), StrType>>, <<IntEx(1), IntType>>,
              <<StrEx("a"), VarType("t")>>, <<NameEx("x"), VarType("t")>>>>
  /\ resultTypeVar = VarType("r")
  /\ result.tag = "right"
  /\ result.value[1].types[1].fields.fields
       = <<Field("b", IntType), Field("a", VarType("t"))>>
  /\ result.value[1].types[1].fields.other = EmptyRow

\* C3: Rec with an even number of arguments fails, returning no constraint,
\* exactly when some key is not a string literal; every such key is named, with
\* its kind, by the message of one of the errors returned, and every error
\* returned names such a key.  The value expressions play no part.
C3_RecNonLiteralKeyFails ==
  (Returned /\ opcode = "Rec" /\ Len(args) % 2 = 0)
    => /\ (BadKeys = {}) <=> (result.tag = "right")
       /\ (BadKeys # {}) <=> (result.tag = "left")
       /\ BadKeys # {} =>
            /\ \A c \in BadKeys : \E k \in 1..Len(result.value) :
                 result.value[k].message = RecKeyMessage(KeyOf(c))
            /\ \A k \in 1..Len(result.value) : \E c \in BadKeys :
                 result.value[k].message = RecKeyMessage(KeyOf(c))

C3_Witness ==
  /\ Returned
  /\ opcode = "Rec"
  /\ Len(args) = 4
  /\ args[1][1] = StrEx("a")
  /\ args[2][1].kind = "int"
  /\ args[3][1] = NameEx("x")
  /\ args[4][1].kind = "str"
  /\ result.tag = "left"
  /\ result.value[1].message
       = "Record field name must be a name expression but is name: x"

\* C4: field with a record and a string literal f succeeds with exactly one
\* constraint, the equality of the type of the record and the open record with
\* the one field f of the type of the result variable X and the tail tail_X.
C4_FieldOpenRecord ==
  (Returned /\ opcode = "field" /\ Len(args) = 2 /\ args[2][1].kind = "str")
    => /\ result.tag = "right"
       /\ Len(result.value) = 1
       /\ IsEq(result.value[1],
               args[1][2],
               RecType(Row(<<Field(args[2][1].value, resultTypeVar)>>,
                           VarType("tail_" \o resultTypeVar.name))))

C4_Witness ==
  /\ Returned
  /\ opcode = "field"
  /\ args = <<<<NameEx("x"), VarType("t")>>, <<StrEx("b"), StrType>>>>
  /\ resultTypeVar = VarType("r_0")
  /\ result.tag = "right"
  /\ result.value[1].types[1] = VarType("t")
  /\ result.value[1].types[2].fields.fields = <<Field("b", VarType("r_0"))>>
  /\ result.value[1].types[2].fields.other = VarType("tail_r_0")

\* C5: with, given a record, a string literal f and a value of type T, succeeds
\* with exactly two constraints: the type of the record equals R and the result
\* variable X equals R, where R is both times the open record with the one
\* field f of type T and the tail tail_X.
C5_WithSharedOpenRecord ==
  (Returned /\ opcode = "with" /\ Len(args) = 3 /\ args[2][1].kind = "str")
    => LET R == RecType(Row(<<Field(args[2][1].value, args[3][2])>>,
                            VarType("tail_" \o resultTypeVar.name)))
       IN /\ result.tag = "right"
          /\ Len(result.value) = 2
          /\ IsEq(result.value[1], args[1][2], R)
          /\ IsEq(result.value[2], resultTypeVar, R)
          /\ result.value[1].types[2].fields.other.name
               = result.value[2].types[2].fields.other.name

C5_Witness ==
  /\ Returned
  /\ opcode = "with"
  /\ args = <<<<NameEx("x"), VarType("t")>>, <<StrEx("a"), StrType>>,
              <<IntEx(2), IntType>>>>
  /\ resultTypeVar = VarType("r")
  /\ result.tag = "right"
  /\ result.value[1].types[2].fields.fields = <<Field("a", IntType)>>
  /\ result.value[2].types[2].fields.other = VarType("tail_r")

\* C6: item with a tuple and an integer literal N >= 1 succeeds with exactly one
\* constraint, the equality of the type of the tuple and the open tuple with N
\* fields: the field i for i in 0..N-2 has the type tup_X_i, the field N-1 has
\* the type of the result variable X, and the tail is tail_X.
C6_ItemOpenTuple ==
  (/\ Returned
   /\ opcode = "item"
   /\ Len(args) = 2
   /\ args[2][1].kind = "int"
   /\ args[2][1].value >= 1)
    => LET n == args[2][1].value
           X == resultTypeVar
       IN /\ result.tag = "right"
          /\ Len(result.value) = 1
          /\ result.value[1].kind = "eq"
          /\ result.value[1].types[1] = args[1][2]
          /\ result.value[1].types[2].kind = "tup"
          /\ result.value[1].types[2].fields.kind = "row"
          /\ result.value[1].types[2].fields.other = VarType("tail_" \o X.name)
          /\ LET fields == result.value[1].types[2].fields.fields
             IN /\ Len(fields) = n
                /\ \A j \in 0..(n - 2) :
                     fields[j + 1]
                       = Field(IntToString(j),
                               VarType("tup_" \o X.name \o "_" \o IntToString(j)))
                /\ fields[n] = Field(IntToString(n - 1), X)

C6_Witness ==
  /\ Returned
  /\ opcode = "item"
  /\ args = <<<<NameEx("x"), VarType("t")>>, <<IntEx(3), IntType>>>>
  /\ resultTypeVar = VarType("r")
  /\ result.tag = "right"
  /\ result.value[1].types[2].fields.fields
       = <<Field("0", VarType("tup_r_0")), Field("1", VarType("tup_r_1")),
           Field("2", VarType("r"))>>

\* C7: Tup succeeds for every argument list, with exactly one constraint: the
\* equality of the closed tuple whose field k, named by the decimal form of k,
\* has the type of the k-th argument (counting from 0), and the result variable.
C7_TupClosedTuple ==
  (Returned /\ opcode = "Tup")
    => /\ result.tag = "right"
       /\ Len(result.value) = 1
       /\ IsEq(result.value[1],
               TupType(Row([k \in 1..Len(args) |->
                              Field(IntToString(k - 1), args[k][2])],
                           EmptyRow)),
               resultTypeVar)

C7_Witness ==
  /\ Returned
  /\ opcode = "Tup"
  /\ Len(args) = 3
  /\ args[1][1].kind = "name"
  /\ args[2][1].kind = "str"
  /\ args[3][1].kind = "int"
  /\ result.tag = "right"
  /\ result.value[1].types[1].fields.fields
       = <<Field("0", VarType("t")), Field("1", StrType), Field("2", IntType)>>

\* C8: fieldNames with one argument succeeds, whatever the expression is, with
\* exactly two constraints: the result variable X equals Set(str), and the type
\* of the record equals the record whose row is the bare variable rec_X.
C8_FieldNamesConstraints ==
  (Returned /\ opcode = "fieldNames" /\ Len(args) = 1)
    => /\ result.tag = "right"
       /\ Len(result.value) = 2
       /\ IsEq(result.value[1], resultTypeVar, SetType(StrType))
       /\ IsEq(result.value[2], args[1][2],
               RecType(VarType("rec_" \o resultTypeVar.name)))

C8_Witness ==
  /\ Returned
  /\ opcode = "fieldNames"
  /\ args = <<<<IntEx(0), IntType>>>>
  /\ resultTypeVar = VarType("r_0")
  /\ result.tag = "right"
  /\ result.value[2].types[2].fields = VarType("rec_r_0")

\* C9: field with two arguments and with with three arguments fail, returning
\* no constraint, exactly when the second argument is not a string literal, and
\* the message of the error then holds the kind and the display form of that
\* expression; the other expressions play no part.
C9_FieldNameNotLiteralFails ==
  (/\ Returned
   /\ \/ opcode = "field" /\ Len(args) = 2
      \/ opcode = "with" /\ Len(args) = 3)
    => IF args[2][1].kind # "str"
       THEN /\ result.tag = "left"
            /\ result.value.message = FieldNameMessage(args[2][1])
       ELSE result.tag = "right"

C9_Witness ==
  /\ Returned
  /\ opcode = "with"
  /\ Len(args) = 3
  /\ args[1][1].kind = "str"
  /\ args[2][1] = NameEx("x")
  /\ args[3][1].kind = "str"
  /\ result.tag = "left"
  /\ result.value.message
       = "Record field name must be a string expression but is name: x"

\* C10: item with two arguments whose second argument is not an integer literal
\* fails, returning no constraint, and the message of the error holds the kind
\* and the display form of that expression.
C10_ItemIndexNotLiteralFails ==
  (Returned /\ opcode = "item" /\ Len(args) = 2 /\ args[2][1].kind # "int")
    => /\ result.tag = "left"
       /\ result.value.message = ItemIndexMessage(args[2][1])

C10_Witness ==
  /\ Returned
  /\ opcode = "item"
  /\ args = <<<<NameEx("x"), VarType("t")>>, <<StrEx("b"), StrType>>>>
  /\ result.tag = "left"
  /\ result.value.message
       = "Tup field index must be an int expression but is str: \"b\""

\* The call has the number of arguments its rule takes.
CorrectArity ==
  CASE opcode = "Rec" -> Len(args) % 2 = 0
    [] opcode = "field" -> Len(args) = 2
    [] opcode = "fieldNames" -> Len(args) = 1
    [] opcode = "with" -> Len(args) = 3
    [] opcode = "item" -> Len(args) = 2
    [] OTHER -> TRUE

\* How many of the literals the rule requires have the wrong kind.
WrongLiterals ==
  CASE opcode = "Rec" -> Cardinality(BadKeys)
    [] opcode \in {"field", "with"} -> IF args[2][1].kind # "str" THEN 1 ELSE 0
    [] opcode = "item" -> IF args[2][1].kind # "int" THEN 1 ELSE 0
    [] OTHER -> 0

\* How many constraints the rule of the opcode returns when it succeeds.
ConstraintCount ==
  CASE opcode \in {"fieldNames", "with"} -> 2
    [] OTHER -> 1

\* How many errors a failure carries: Rec returns a list of them.
ErrorCount == IF opcode = "Rec" THEN Len(result.value) ELSE 1

\* C11 as stated: a special opcode called with the right number of arguments
\* either succeeds with all the constraints of its rule, or fails with one
\* validation error and no constraint, and fails only on a literal of the wrong
\* kind.
C11_AllConstraintsOrOneError ==
  (Returned /\ opcode \in SpecialOpcodes /\ CorrectArity)
    => \/ /\ result.tag = "right"
          /\ Len(result.value) = ConstraintCount
          /\ \A k \in 1..Len(result.value) : result.value[k].kind = "eq"
          /\ WrongLiterals = 0
       \/ /\ result.tag = "left"
          /\ ErrorCount = 1
          /\ WrongLiterals > 0

\* C11 as amended: a special opcode called with the right number of arguments
\* either succeeds with all the constraints of its rule, or fails with no
\* constraint and one validation error for each required literal of the wrong
\* kind (more than one only for Rec, one for each key that is no string
\* literal); it fails only on a literal of the wrong kind.
C11_AllConstraintsOrErrors ==
  (Returned /\ opcode \in SpecialOpcodes /\ CorrectArity)
    => \/ /\ result.tag = "right"
          /\ Len(result.value) = ConstraintCount
          /\ \A k \in 1..Len(result.value) : result.value[k].kind = "eq"
          /\ WrongLiterals = 0
       \/ /\ result.tag = "left"
          /\ ErrorCount = WrongLiterals
          /\ WrongLiterals > 0

C11_Witness ==
  /\ Returned
  /\ opcode = "Rec"
  /\ Len(args) = 4
  /\ args[1][1] = NameEx("x")
  /\ args[3][1] = IntEx(2)
  /\ result.tag = "left"
  /\ Len(result.value) = 2

\* The types a driver may have inferred for an argument in another run.
TypeChoices == {IntType, StrType, VarType("u")}

\* The argument list of the call with the type t in the place of every type.
Retyped(t) == [k \in 1..Len(args) |-> <<args[k][1], t>>]

\* Whether a call succeeded, failed or threw, and the error it failed with.
Outcome(r) == IF r.tag = "left" THEN r ELSE [tag |-> r.tag]

\* C12: whether a call succeeds or fails, and the error it fails with, does not
\* depend on the types of the arguments: the call with the same opcode,
\* expressions and result variable and any one type in the place of every
\* argument type has the outcome of this call.  (Every typing of the same
\* expressions then has the one outcome of these uniform typings.)
C12_OutcomeIgnoresTypes ==
  Returned
    => \A t \in TypeChoices :
         Outcome(specialConstraints(opcode, id, Retyped(t), resultTypeVar))
           = Outcome(result)

C12_Witness ==
  /\ Returned
  /\ opcode = "field"
  /\ args = <<<<StrEx("a"), VarType("t")>>, <<NameEx("x"), IntType>>>>
  /\ result.tag = "left"
  /\ specialConstraints(opcode, id, Retyped(StrType), resultTypeVar) = result

\* The names of the auxiliary variables a successful call introduces, one entry
\* for each: the tail of the open row, the row variable of fieldNames, and the
\* placeholders of item in the order of their positions.
AuxNames ==
  CASE opcode \in {"field", "with"} ->
         <<result.value[1].types[2].fields.other.name>>
    [] opcode = "fieldNames" -> <<result.value[2].types[2].fields.name>>
    [] opcode = "item" ->
         LET row == result.value[1].types[2].fields
         IN [k \in 1..(Len(row.fields) - 1) |-> row.fields[k].fieldType.name]
              \o <<row.other.name>>
    [] OTHER -> <<>>

\* C14: the names of the auxiliary variables that a successful call of one of
\* the six rules introduces are pairwise distinct, and none of them is the name
\* of the result variable, whatever that name is.
C14_AuxNamesDistinct ==
  (Returned /\ opcode \in SpecialOpcodes /\ result.tag = "right")
    => /\ \A j, k \in 1..Len(AuxNames) : j # k => AuxNames[j] # AuxNames[k]
       /\ \A j \in 1..Len(AuxNames) : AuxNames[j] # resultTypeVar.name

C14_Witness ==
  /\ Returned
  /\ opcode = "item"
  /\ Len(args) = 2
  /\ args[2][1] = IntEx(3)
  /\ resultTypeVar = VarType("tail_r")
  /\ result.tag = "right"
  /\ AuxNames = <<"tup_tail_r_0", "tup_tail_r_1", "tail_tail_r">>

\* The rows of the record and tuple types in the constraints of a success.
EmittedRows ==
  {result.value[k].types[j].fields :
     <<k, j>> \in {kj \in (1..Len(result.value)) \X {1, 2} :
                     /\ result.value[kj[1]].types[kj[2]].kind \in {"rec", "tup"}
                     /\ result.value[kj[1]].types[kj[2]].fields.kind = "row"}}

\* The names of the fields of the row are pairwise distinct.
DistinctFieldNames(row) ==
  \A j, k \in 1..Len(row.fields) :
    j # k => row.fields[j].fieldName # row.fields[k].fieldName

\* The key literals of a Rec call are pairwise distinct.
DistinctKeys == \A c, d \in Pairs : c # d => KeyOf(c).value # KeyOf(d).value

\* C15 as stated: every row in a constraint that the generator returns has
\* pairwise distinct field names.
C15_RowsHaveDistinctNames ==
  (Returned /\ result.tag = "right")
    => \A row \in EmittedRows : DistinctFieldNames(row)

\* C15 as amended: every row that field, with, Tup and item return has pairwise
\* distinct field names; the row that Rec returns has the key literals as its
\* field names, uninspected, so its names are pairwise distinct exactly when the
\* key literals are.
C15_RowsHaveDistinctNamesButRec ==
  (Returned /\ result.tag = "right")
    => \A row \in EmittedRows :
         DistinctFieldNames(row) <=> (opcode = "Rec" => DistinctKeys)

C15_Witness ==
  /\ Returned
  /\ opcode = "Rec"
  /\ Len(args) = 4
  /\ args[1][1] = StrEx("a")
  /\ args[3][1] = StrEx("a")
  /\ args[2][2] = IntType
  /\ args[4][2] = VarType("t")
  /\ result.tag = "right"
  /\ result.value[1].types[1].fields.fields
       = <<Field("a", IntType), Field("a", VarType("t"))>>

\* C16: item whose index is an integer literal N <= 0 fails with a validation
\* error and returns no constraint.
C16_ItemNonPositiveIndexFails ==
  (/\ Returned
   /\ opcode = "item"
   /\ Len(args) = 2
   /\ args[2][1].kind = "int"
   /\ args[2][1].value <= 0)
    => result.tag = "left"

\* The c-th key, in argument order, that is no string literal.
NthBadKey(n) ==
  KeyOf(CHOOSE c \in BadKeys : Cardinality({d \in BadKeys : d < c}) = n - 1)

\* C17 as stated: Rec with two or more keys that are no string literals fails
\* with a single error, which reports the first of these keys.
C17_RecReportsFirstBadKeyOnly ==
  (Returned /\ opcode = "Rec" /\ Len(args) % 2 = 0 /\ Cardinality(BadKeys) >= 2)
    => /\ result.tag = "left"
       /\ Len(result.value) = 1
       /\ result.value[1].message = RecKeyMessage(NthBadKey(1))

\* C17 as amended: Rec with two or more keys that are no string literals fails
\* with the list of one error for each of these keys, in argument order: the
\* first error reports the first failing key, the n-th error the n-th.
C17_RecReportsEveryBadKeyInOrder ==
  (Returned /\ opcode = "Rec" /\ Len(args) % 2 = 0 /\ Cardinality(BadKeys) >= 2)
    => /\ result.tag = "left"
       /\ Len(result.value) = Cardinality(BadKeys)
       /\ \A n \in 1..Len(result.value) :
            result.value[n].message = RecKeyMessage(NthBadKey(n))

C17_Witness ==
  /\ Returned
  /\ opcode = "Rec"
  /\ Len(args) = 4
  /\ args[1][1] = IntEx(2)
  /\ args[3][1] = NameEx("x")
  /\ result.tag = "left"
  /\ result.value[1].message
       = "Record field name must be a name expression but is int: 2"
  /\ result.value[2].message
       = "Record field name must be a name expression but is name: x"

\* C18: a call never raises: whatever the opcode and the argument list, also one
\* with too few arguments for the rule, the call returns a success or an error
\* value.
C18_NeverRaises == Returned => result.tag \in {"left", "right"}

\* C19: every tuple row that Tup and item return has, for its number k of
\* fields, the fields named "0", "1", ..., k-1 in this order.
C19_TupleFieldsNamedByPosition ==
  (Returned /\ opcode \in {"Tup", "item"} /\ result.tag = "right")
    => \A row \in EmittedRows :
         \A k \in 1..Len(row.fields) :
           row.fields[k].fieldName = IntToString(k - 1)

\* The constraint without its source: its kind and its two types.
Content(c) == [kind |-> c.kind, types |-> c.types]

\* C20: every constraint returned carries the id of the node of the call as its
\* source, and the id enters nothing else: the call with any other id and the
\* same opcode, arguments and result variable has the same outcome (success,
\* the same error, or the same exception) and, on success, constraints with the
\* same kinds and types in the same order.
C20_IdIsSourceOnly ==
  Returned
    => /\ result.tag = "right"
            => \A k \in 1..Len(result.value) : result.value[k].sourceId = id
       /\ \A j \in NodeIds \cup {0} :
            LET other == specialConstraints(opcode, j, args, resultTypeVar)
            IN /\ Outcome(other) = Outcome(result)
               /\ result.tag = "right"
                    => /\ Len(other.value) = Len(result.value)
                       /\ \A k \in 1..Len(result.value) :
                            Content(other.value[k]) = Content(result.value[k])

C20_Witness ==
  /\ Returned
  /\ opcode = "with"
  /\ Len(args) = 3
  /\ id = 2
  /\ result.tag = "right"
  /\ result.value[1].sourceId = 2
  /\ result.value[2].sourceId = 2
  /\ specialConstraints(opcode, 1, args, resultTypeVar).value[2].sourceId = 1

\* The set of the names of the auxiliary variables in the result r of a
\* successful call of the rule of op.
AuxNameSetOf(op, r) ==
  CASE op \in {"field", "with"} -> {r.value[1].types[2].fields.other.name}
    [] op = "fieldNames" -> {r.value[2].types[2].fields.name}
    [] op = "item" ->
         LET row == r.value[1].types[2].fields
         IN {row.fields[k].fieldType.name : k \in 1..(Len(row.fields) - 1)}
              \cup {row.other.name}
    [] OTHER -> {}

\* Successful calls of the rules that derive names: the opcode and the arguments.
DerivingCalls ==
  {<<"field", <<<<NameEx("x"), VarType("t")>>, <<StrEx("a"), StrType>>>>>>,
   <<"fieldNames", <<<<NameEx("x"), VarType("t")>>>>>>,
   <<"with", <<<<NameEx("x"), VarType("t")>>, <<StrEx("a"), StrType>>,
               <<NameEx("x"), IntType>>>>>>}
    \cup {<<"item", <<<<NameEx("x"), VarType("t")>>, <<IntEx(n), IntType>>>>>> :
            n \in 0..MaxIndex}

\* C21: the auxiliary names that a successful call with the result variable X
\* derives and those that a call of any of the rules with a result variable of
\* another name Y derives are disjoint, whatever the two names and the indexes
\* of item are.
C21_AuxNamesOfTwoCallsDisjoint ==
  (Returned /\ opcode \in SpecialOpcodes /\ result.tag = "right")
    => \A Y \in ResultVarNames \ {resultTypeVar.name} :
         \A call \in DerivingCalls :
           AuxNameSetOf(call[1],
                        specialConstraints(call[1], id, call[2], VarType(Y)))
             \cap AuxNameSetOf(opcode, result) = {}

C21_Witness ==
  /\ Returned
  /\ opcode = "item"
  /\ Len(args) = 2
  /\ args[2][1] = IntEx(3)
  /\ resultTypeVar = VarType("r")
  /\ result.tag = "right"
  /\ AuxNameSetOf(opcode, result) = {"tup_r_0", "tup_r_1", "tail_r"}
  /\ AuxNameSetOf("item",
                  specialConstraints("item", id,
                    <<<<NameEx("x"), VarType("t")>>, <<IntEx(2), IntType>>>>,
                    VarType("r_0")))
       = {"tup_r_0_0", "tail_r_0"}

\* C22: Rec with 2n arguments whose keys are all string literals and Tup with n
\* arguments return a closed row with exactly n fields, for every n >= 0; with
\* no argument both succeed with the one constraint that equates the closed
\* record, respectively tuple, without fields and the result variable.
C22_ConstructorRowHasOneFieldPerPair ==
  /\ (Returned /\ opcode = "Rec" /\ Len(args) % 2 = 0 /\ BadKeys = {})
       => /\ result.tag = "right"
          /\ Len(result.value) = 1
          /\ result.value[1].types[1].kind = "rec"
          /\ result.value[1].types[1].fields.other = EmptyRow
          /\ Len(result.value[1].types[1].fields.fields) * 2 = Len(args)
          /\ Len(args) = 0
               => IsEq(result.value[1], RecType(Row(<<>>, EmptyRow)), resultTypeVar)
  /\ (Returned /\ opcode = "Tup")
       => /\ result.tag = "right"
          /\ Len(result.value) = 1
          /\ result.value[1].types[1].kind = "tup"
          /\ result.value[1].types[1].fields.other = EmptyRow
          /\ Len(result.value[1].types[1].fields.fields) = Len(args)
          /\ Len(args) = 0
               => IsEq(result.value[1], TupType(Row(<<>>, EmptyRow)), resultTypeVar)

C22_Witness ==
  /\ Returned
  /\ opcode = "Rec"
  /\ Len(args) = 0
  /\ resultTypeVar = VarType("r")
  /\ result.tag = "right"
  /\ Len(result.value) = 1
  /\ Len(result.value[1].types[1].fields.fields) = 0
  /\ result.value[1].types[2] = VarType("r")

\* C23: in every state that the example reaches from init by steps, no
\* philosopher eats while the right neighbour eats, and every fork in forks is
\* held by at most one philosopher (at most one pair of taken has the fork):
\* the predicate Safety of the example holds.
C23_PhilosophersSafety ==
  /\ \A p \in philosophers :
       states[p] = "Eating" => states[(p + 1) % N] # "Eating"
  /\ \A f \in forks :
       \A p, q \in philosophers :
         (<<p, f>> \in taken /\ <<q, f>> \in taken) => p = q
  /\ Safety

C23_Witness ==
  /\ states[0] = "Eating"
  /\ states[2] = "Eating"
  /\ states[4] = "Hungry"
  /\ forks = {0, 1, 2, 3}
  /\ taken = {<<0, 0>>, <<0, 1>>, <<2, 2>>, <<2, 3>>}

\* C24: under weak fairness of step, in every behaviour of the example from
\* init it is always the case that eventually DeadlockCondition is false, that
\* is, that not every philosopher is Hungry or some philosopher can pick both
\* forks.
C24_PhilosophersDeadlockFreedom == []<>(~DeadlockCondition)

C24_Witness ==
  /\ DeadlockCondition
  /\ taken = {<<0, 0>>, <<0, 1>>, <<2, 2>>, <<2, 3>>}

====
